---- MODULE Spec2Model ----
(***************************************************************************)
(* Model of run_cellphonedb_rabbitmq.py: a worker that takes job messages  *)
(* from a RabbitMQ queue, runs the method or the plot handler on each,     *)
(* and publishes one result message per job, for at most three jobs.       *)
(*                                                                         *)
(* The worker is single-threaded.  The environment (producers of jobs,     *)
(* the broker, the network) acts between the worker's steps.               *)
(***************************************************************************)
EXTENDS Integers, Sequences, FiniteSets, TLC

(* ------------------------------ bounds --------------------------------- *)

\* Largest number of messages waiting in the job queue at one time.
MaxQueue == 2

\* The ghost counter of empty polls saturates at this value.
MaxPolls == 4

(* ------------------------- program constants --------------------------- *)

\* `while jobs_runned < 3 and consume_more_jobs`
MaxJobs == 3

\* Python's None.
PyNone == "<None>"

\* str.format of a value that may be None.
Format(v) == IF v = PyNone THEN "None" ELSE v

\* Classified without PlotException.
ClassifiedWithoutPlot ==
  {"ReadFileException", "ParseMetaException", "ParseCountsException",
   "ThresholdValueException", "AllCountsFilteredException",
   "EmptyResultException"}

\* The exception classes named by the first except clause.
Classified ==
  {"ReadFileException", "ParseMetaException", "ParseCountsException",
   "ThresholdValueException", "AllCountsFilteredException",
   "EmptyResultException", "PlotException"}

\* Exception classes that only `except Exception` catches: a missing dict
\* key, invalid JSON, a failed numeric coercion, a botocore client error
\* (NoSuchKey and other S3 faults), a pika AMQP error, anything else.
Unclassified ==
  {"KeyError", "JSONDecodeError", "ValueError", "ClientError", "AMQPError",
   "RuntimeError"}

\* description / hint attributes an exception may carry (None: absent or
\* empty).
Descriptions == {PyNone, "d"}
Hints == {PyNone, "h"}

\* An exception object.  site is a pair naming the call that raised it and
\* what it was applied to.
Exc(cls, site, description, hint) ==
  [cls |-> cls, site |-> site, description |-> description, hint |-> hint]

\* An exception without description and hint attributes.
Plain(cls, site) == Exc(cls, site, PyNone, PyNone)

\* The message an exception class passes to Exception.__init__: one fixed
\* text per class, different classes having different texts.  Texts are
\* sequences of their pieces.
ExceptionText(cls) == <<"message of ", cls>>

\* str(e): the message the exception was constructed with.
Str(e) == ExceptionText(e.cls)

NoExc == Plain("none", <<"none", "none">>)

(* ------------------------------ messages ------------------------------- *)

\* Fields a method job must carry besides job_id.
MethodFields ==
  {"file_meta", "file_counts", "iterations", "threshold", "result_precision"}

\* The ids callers give to jobs: the i-th job handed to a handler carries
\* the i-th id (ids are unique per job).
JobIdNames == <<"j1", "j2", "j3", "j4", "j5">>

\* Plot types a payload may declare (None: no type given).
PlotTypes == {"dot_plot", "heatmaps_plot", "unknown_type", PyNone}

\* body: "empty" (zero bytes), "malformed" (not a JSON object) or "json".
\* job_id: the id, or None when the key is absent.
\* fields: the required method fields present.  iterations: its value.
Payload(body, job_id, type, fields, iterations) ==
  [body |-> body, job_id |-> job_id, type |-> type, fields |-> fields,
   iterations |-> iterations]

NoJob == Payload("none", PyNone, PyNone, {}, 0)

\* Payloads a method worker may receive as its next message, id being the
\* id of that job.
MethodPayloads(id) ==
  {Payload("empty", PyNone, PyNone, {}, 0),
   Payload("malformed", PyNone, PyNone, {}, 0),
   Payload("json", PyNone, PyNone, MethodFields, 0)}
  \cup {Payload("json", id, PyNone, MethodFields, it) : it \in {0, 10}}
  \cup {Payload("json", id, PyNone, MethodFields \ {f}, 10) : f \in MethodFields}
  \cup {Payload("json", id, "dot_plot", MethodFields, 0)}

\* Payloads a plot worker may receive.
PlotPayloads(id) ==
  {Payload("empty", PyNone, PyNone, {}, 0),
   Payload("malformed", PyNone, PyNone, {}, 0)}
  \cup {Payload("json", j, t, {}, 0) : j \in {id, PyNone}, t \in PlotTypes}
  \cup {Payload("json", id, PyNone, MethodFields, 10)}

Payloads(queue_name, id) ==
  IF queue_name = "plot_jobs" THEN PlotPayloads(id) ELSE MethodPayloads(id)

\* json.loads(body)['job_id'] succeeds.
HasJobId(m) == m.body = "json" /\ m.job_id # PyNone

(* ------------------------------ handlers ------------------------------- *)

\* The trace of a job: the temporary files made and removed, the storage
\* reads attempted, the computations started and the storage writes
\* completed for it, in order.
GetEvents(keys, n) == [j \in 1..n |-> <<"get_object", keys[j]>>]

PutEvents(keys, n) == [j \in 1..n |-> <<"put_object", keys[j]>>]

\* A storage key or file name built by str.format from a job id.
Key(prefix, id, suffix) == <<prefix, id, suffix>>

NoResponse == [job_id |-> PyNone]

\* What a handler call does: it returns a response or raises, after the
\* events of trace.
Return(r, tr) == [ret |-> TRUE, response |-> r, exc |-> NoExc, trace |-> tr]

Raise(e, tr) == [ret |-> FALSE, response |-> NoResponse, exc |-> e, trace |-> tr]

\* WriteAll that returns without the last write.
WriteAllButLast(keys, response, tr) ==
  {Raise(Plain("ClientError", <<"put_object", keys[i]>>),
         tr \o PutEvents(keys, i - 1)) : i \in 1..(Len(keys) - 1)}
  \cup {Return(response, tr \o PutEvents(keys, Len(keys) - 1))}

\* write_data_in_s3 / write_image_to_s3 for each of keys in order, then
\* `return response`: any put_object may fail with a client error, which
\* leaves the earlier objects written.
WriteAll(keys, response, tr) ==
  {Raise(Plain("ClientError", <<"put_object", keys[i]>>),
         tr \o PutEvents(keys, i - 1)) : i \in 1..Len(keys)}
  \cup {Return(response, tr \o PutEvents(keys, Len(keys)))}

\* statistical_analysis after the launcher returned.
StatisticalResponse(id) ==
  [job_id |-> id,
   files |-> [pvalues |-> Key("pvalues_simple_", id, ".txt"),
              means |-> Key("means_simple_", id, ".txt"),
              significant_means |-> Key("significant_means_simple_", id, ".txt"),
              deconvoluted |-> Key("deconvoluted_simple_", id, ".txt")],
   success |-> TRUE]

\* non_statistical_analysis after the launcher returned.
NonStatisticalResponse(id) ==
  [job_id |-> id,
   files |-> [means |-> Key("means_simple_", id, ".txt"),
              significant_means |-> Key("significant_means_", id, ".txt"),
              deconvoluted |-> Key("deconvoluted_simple_", id, ".txt")],
   success |-> TRUE]

\* Exceptions the analysis launchers raise: the classified input and result
\* errors, bare or with a description and a hint, or some other error.
LauncherRaises ==
  {Exc(c, <<"launcher", "method">>, dh[1], dh[2]) :
     c \in {"ParseMetaException", "ParseCountsException",
            "ThresholdValueException", "AllCountsFilteredException",
            "EmptyResultException"},
     dh \in {<<PyNone, PyNone>>, <<"d", "h">>}}
  \cup {Plain("RuntimeError", <<"launcher", "method">>)}

\* statistical_analysis: coerce threshold, iterations, result_precision,
\* pvalue; run the launcher; write pvalues, means, significant_means,
\* deconvoluted.
statistical_analysis(m, tr) ==
  IF "threshold" \notin m.fields
  THEN {Raise(Plain("KeyError", <<"metadata", "threshold">>), tr)}
  ELSE IF "result_precision" \notin m.fields
  THEN {Raise(Plain("KeyError", <<"metadata", "result_precision">>), tr)}
  ELSE LET r == StatisticalResponse(m.job_id)
           tc == Append(tr, <<"compute", "statistical">>)
       IN {Raise(Plain("ValueError", <<"coerce", "threshold">>), tr)}
          \cup {Raise(e, tc) : e \in LauncherRaises}
          \cup WriteAll(<<r.files.pvalues, r.files.means,
                          r.files.significant_means, r.files.deconvoluted>>,
                        r, tc)

\* non_statistical_analysis: coerce threshold, result_precision; run the
\* launcher; write means, significant_means, deconvoluted.
non_statistical_analysis(m, tr) ==
  IF "threshold" \notin m.fields
  THEN {Raise(Plain("KeyError", <<"metadata", "threshold">>), tr)}
  ELSE IF "result_precision" \notin m.fields
  THEN {Raise(Plain("KeyError", <<"metadata", "result_precision">>), tr)}
  ELSE LET r == NonStatisticalResponse(m.job_id)
           tc == Append(tr, <<"compute", "non_statistical">>)
       IN {Raise(Plain("ValueError", <<"coerce", "threshold">>), tr)}
          \cup {Raise(e, tc) : e \in LauncherRaises}
          \cup WriteAll(<<r.files.means, r.files.significant_means,
                          r.files.deconvoluted>>, r, tc)

\* read_data_from_s3(metadata[field]): get_object raises a client error when
\* the object is not found (or S3 fails); otherwise
\* utils.read_data_from_s3_object parses the object or raises
\* ReadFileException.  Gives the outcomes that raise.
ReadRaises(field, tr) ==
  LET t == Append(tr, <<"get_object", field>>)
  IN {Raise(Plain("ClientError", <<"get_object", field>>), t)}
     \cup {Raise(Exc("ReadFileException", <<"read_data", field>>, d, h), t) :
             d \in Descriptions, h \in Hints}

\* process_method with the two analyses exchanged.
MethodAfterReadsExchanged(m, tr) ==
  {Raise(Plain("KeyError", <<"metadata", "log">>), tr)}
  \cup (IF "iterations" \notin m.fields
        THEN {Raise(Plain("KeyError", <<"metadata", "iterations">>), tr)}
        ELSE IF m.iterations # 0
        THEN non_statistical_analysis(m, tr)
        ELSE statistical_analysis(m, tr))

\* process_method after both inputs were read: the subsampler (which
\* raises when subsampling is asked for without log or num_pc), then the
\* analysis selected by metadata['iterations'].
MethodAfterReads(m, tr) ==
  {Raise(Plain("KeyError", <<"metadata", "log">>), tr)}
  \cup (IF "iterations" \notin m.fields
        THEN {Raise(Plain("KeyError", <<"metadata", "iterations">>), tr)}
        ELSE IF m.iterations # 0
        THEN statistical_analysis(m, tr)
        ELSE non_statistical_analysis(m, tr))

\* process_method(method, properties, body): every outcome the call can
\* have on payload m.
process_method(m) ==
  IF m.body # "json"
  THEN {Raise(Plain("JSONDecodeError", <<"json.loads", "body">>), <<>>)}
  ELSE IF m.job_id = PyNone
  THEN {Raise(Plain("KeyError", <<"metadata", "job_id">>), <<>>)}
  ELSE IF "file_meta" \notin m.fields
  THEN {Raise(Plain("KeyError", <<"metadata", "file_meta">>), <<>>)}
  ELSE LET t1 == <<<<"get_object", "file_meta">>>>
       IN ReadRaises("file_meta", <<>>)
          \cup (IF "file_counts" \notin m.fields
                THEN {Raise(Plain("KeyError", <<"metadata", "file_counts">>), t1)}
                ELSE ReadRaises("file_counts", t1)
                     \cup MethodAfterReads(m, Append(t1, <<"get_object", "file_counts">>)))

\* The temporary directory and files of temps are made, in order.
TempEvents(temps) == [j \in 1..Len(temps) |-> <<"tempfile", temps[j]>>]

\* They are removed, the innermost first.
CleanupEvents(temps) ==
  [j \in 1..Len(temps) |-> <<"cleanup", temps[Len(temps) + 1 - j]>>]

\* Temporary files that are removed only when the body returns.
WithTempKeptOnRaise(temps, outcomes) ==
  {[o EXCEPT !.trace = IF o.ret
                       THEN TempEvents(temps) \o o.trace \o CleanupEvents(temps)
                       ELSE TempEvents(temps) \o o.trace] :
     o \in outcomes}

\* with tempfile.TemporaryDirectory() as ...: with
\* tempfile.NamedTemporaryFile() as ...: the body runs with the temporary
\* directory and files made, and they are removed when it returns and when
\* it raises.
WithTemp(temps, outcomes) ==
  {[o EXCEPT !.trace = TempEvents(temps) \o o.trace \o CleanupEvents(temps)] :
     o \in outcomes}

\* A plot function that checks for its output files after writing them.
PlotBodyChecksLast(kind, inputs, outputs, response) ==
  LET tr == GetEvents(inputs, Len(inputs))
      tc == Append(tr, <<"compute", kind>>)
  IN {Raise(Plain("ClientError", <<"get_object", inputs[i]>>),
            GetEvents(inputs, i)) : i \in 1..Len(inputs)}
     \cup {Raise(Plain("RuntimeError", <<"plotter", kind>>), tc)}
     \cup {Raise(Exc("PlotException", <<"os.path.exists", kind>>, d, PyNone),
                 tc \o PutEvents(outputs, Len(outputs))) :
             d \in Descriptions}
     \cup WriteAll(outputs, response, tc)

\* The body of a plot function: _from_s3_to_temp for each input, the
\* plotter, the check that every output file exists, write_image_to_s3 for
\* each output, `return response`.
PlotBody(kind, inputs, outputs, response) ==
  LET tr == GetEvents(inputs, Len(inputs))
      tc == Append(tr, <<"compute", kind>>)
  IN {Raise(Plain("ClientError", <<"get_object", inputs[i]>>),
            GetEvents(inputs, i)) : i \in 1..Len(inputs)}
     \cup {Raise(Plain("RuntimeError", <<"plotter", kind>>), tc)}
     \cup {Raise(Exc("PlotException", <<"os.path.exists", kind>>, d, PyNone), tc) :
             d \in Descriptions}
     \cup WriteAll(outputs, response, tc)

\* dot_plot_results(means, pvalues, rows, columns, job_id)
dot_plot_results(id) ==
  LET output_name == Key("plot__", id, ".png")
  IN WithTemp(<<"output_path", "means_file", "pvalues_file", "rows_file",
                "columns_file">>,
              PlotBody("dot_plot",
                       <<"file_means", "file_pvalues", "file_rows",
                         "file_columns">>,
                       <<output_name>>,
                       [job_id |-> id, files |-> [plot |-> output_name],
                        success |-> TRUE]))

\* heatmaps_plot_results(meta, pvalues, job_id)
heatmaps_plot_results(id) ==
  LET count_name == Key("plot_count__", id, ".png")
      count_log_name == Key("plot_count_log__", id, ".png")
  IN WithTemp(<<"output_path", "pvalues_file", "meta_file">>,
              PlotBody("heatmaps_plot",
                       <<"file_pvalues", "file_meta">>,
                       <<count_name, count_log_name>>,
                       [job_id |-> id,
                        files |-> [count_plot |-> count_name,
                                   count_log_plot |-> count_log_name],
                        success |-> TRUE]))

\* UnknownPlotType with the job id formatted into the message instead of
\* the type.
UnknownPlotTypeNamesId(id, plot_type) ==
  [job_id |-> id,
   success |-> FALSE,
   error |-> [id |-> <<"UnknownPlotType">>,
              message |-> <<"Given plot type does not exist: ", Format(id)>>]]

\* The response process_plot returns for a type it does not know.
UnknownPlotType(id, plot_type) ==
  [job_id |-> id,
   success |-> FALSE,
   error |-> [id |-> <<"UnknownPlotType">>,
              message |-> <<"Given plot type does not exist: ",
                            Format(plot_type)>>]]

\* process_plot(method, properties, body): every outcome the call can have
\* on payload m.
process_plot(m) ==
  IF m.body # "json"
  THEN {Raise(Plain("JSONDecodeError", <<"json.loads", "body">>), <<>>)}
  ELSE IF m.job_id = PyNone
  THEN {Raise(Plain("KeyError", <<"metadata", "job_id">>), <<>>)}
  ELSE IF m.type = "dot_plot" THEN dot_plot_results(m.job_id)
  ELSE IF m.type = "heatmaps_plot" THEN heatmaps_plot_results(m.job_id)
  ELSE {Return(UnknownPlotType(m.job_id, m.type), <<>>)}

(* -------------------------------- state -------------------------------- *)

VARIABLES
  jobs_queue_name,   \* RABBIT_JOB_QUEUE: selects the handler
  queue,             \* number of messages waiting in the job queue
  results,           \* the messages published to the result queue, in order
  broker_up,         \* the broker accepts connections and serves I/O
  connection,        \* [id, st]: st is "open" or "closed" (is_closed),
                     \* "none" before startup; id numbers the connections
                     \* created in the current round of the loop, 0 being
                     \* the connection the round began with
  channel,           \* id of the connection the channel was opened on
  closed_seen,       \* history: some connection of the run was closed
  jobs_runned,       \* the counter of the main loop
  consume_more_jobs, \* the flag of the main loop
  pc,                \* the worker's position
  job,               \* the payload of the message basic_get returned
  job_response,      \* what the handler returned
  error_response,    \* what an except clause built
  exc,               \* the exception being handled
  trace,             \* storage and computation events of the job in progress
  dequeued,          \* number of messages handed to a handler so far
  empty_polls        \* number of rounds in a row that took the `Empty
                     \* queue` branch, saturating at MaxPolls

vars ==
  <<jobs_queue_name, queue, results, broker_up, connection,
    channel, closed_seen, jobs_runned, consume_more_jobs, pc, job,
    job_response,
    error_response, exc, trace, dequeued, empty_polls>>

\* The variables that hold the job in progress.
jobVars == <<job, job_response, error_response, exc, trace>>

\* The variables of the broker connection.
connVars == <<connection, channel, closed_seen>>

\* The variables the environment does not touch besides those of connVars.
loopVars == <<jobs_queue_name, results, jobs_runned,
              consume_more_jobs, dequeued, empty_polls>>

Init ==
  /\ jobs_queue_name \in {"plot_jobs", "method_jobs"}
  /\ queue = 0
  /\ results = <<>>
  /\ broker_up \in BOOLEAN
  /\ connection = [id |-> -1, st |-> "none"]
  /\ channel = -1
  /\ closed_seen = FALSE
  /\ jobs_runned = 0
  /\ consume_more_jobs = TRUE
  /\ pc = "start"
  /\ job = NoJob
  /\ job_response = NoResponse
  /\ error_response = NoResponse
  /\ exc = NoExc
  /\ trace = <<>>
  /\ dequeued = 0
  /\ empty_polls = 0

\* An operation on the channel succeeds: its connection is open and the
\* broker answers.
Usable == connection.st = "open" /\ channel = connection.id /\ broker_up

\* connection = create_rabbit_connection(); channel = connection.channel();
\* channel.basic_qos(prefetch_count=1)
NewConnection ==
  /\ connection' = [id |-> connection.id + 1, st |-> "open"]
  /\ channel' = connection.id + 1
  /\ UNCHANGED closed_seen

\* An operation on the channel raised: the connection is seen closed from
\* then on.
ConnectionBroken ==
  /\ connection' = [connection EXCEPT !.st = "closed"]
  /\ closed_seen' = TRUE
  /\ UNCHANGED channel

\* The job in progress is over: its variables are dead until the next
\* basic_get and handler call assign them again.
ForgetJob ==
  /\ job' = NoJob
  /\ job_response' = NoResponse
  /\ error_response' = NoResponse
  /\ exc' = NoExc
  /\ trace' = <<>>

(* ------------------------------ the worker ----------------------------- *)

\* Module level: connection = create_rabbit_connection() and its channel.
Startup ==
  /\ pc = "start"
  /\ broker_up
  /\ NewConnection
  /\ pc' = "loop"
  /\ UNCHANGED <<loopVars, jobVars, queue, broker_up>>

\* The same, the broker being unreachable: the exception is not caught.
StartupFails ==
  /\ pc = "start"
  /\ ~broker_up
  /\ pc' = "aborted"
  /\ UNCHANGED <<loopVars, jobVars, connVars, queue, broker_up>>

\* LoopCondition with <= for <.
LoopConditionInclusive == jobs_runned <= MaxJobs /\ consume_more_jobs

\* `while jobs_runned < 3 and consume_more_jobs`
LoopCondition == jobs_runned < MaxJobs /\ consume_more_jobs

\* The loop condition is false: the script ends.
LoopExit ==
  /\ pc = "loop"
  /\ ~LoopCondition
  /\ pc' = "done"
  /\ UNCHANGED <<loopVars, jobVars, connVars, queue, broker_up>>

\* basic_get raises (connection closed or broker gone): outside the try.
BasicGetFails ==
  /\ pc = "loop"
  /\ LoopCondition
  /\ ~Usable
  /\ ConnectionBroken
  /\ pc' = "aborted"
  /\ UNCHANGED <<loopVars, jobVars, queue, broker_up>>

\* BasicGetEmpty clearing the flag of the loop.
BasicGetEmptyGivesUp ==
  /\ pc = "loop"
  /\ jobs_runned < MaxJobs /\ consume_more_jobs
  /\ connection.st = "open" /\ channel = connection.id /\ broker_up
  /\ queue = 0
  /\ empty_polls' = IF empty_polls < MaxPolls THEN empty_polls + 1 ELSE empty_polls
  /\ consume_more_jobs' = FALSE
  /\ pc' = "loop"
  /\ UNCHANGED <<jobs_queue_name, results, jobs_runned, dequeued, job,
                 job_response, error_response, exc, trace, connection,
                 channel, closed_seen, queue, broker_up>>

\* An empty attempt that is counted like a job.
BasicGetEmptyCounts ==
  /\ pc = "loop"
  /\ LoopCondition
  /\ Usable
  /\ queue = 0
  /\ empty_polls' = IF empty_polls < MaxPolls THEN empty_polls + 1 ELSE empty_polls
  /\ jobs_runned' = jobs_runned + 1
  /\ pc' = "loop"
  /\ UNCHANGED <<jobs_queue_name, results,
                 consume_more_jobs, dequeued, jobVars, connVars, queue,
                 broker_up>>

\* basic_get returns (None, None, None): `Empty queue`, sleep, next round.
BasicGetEmpty ==
  /\ pc = "loop"
  /\ LoopCondition
  /\ Usable
  /\ queue = 0
  /\ empty_polls' = IF empty_polls < MaxPolls THEN empty_polls + 1 ELSE empty_polls
  /\ pc' = "loop"
  /\ UNCHANGED <<jobs_queue_name, results, jobs_runned,
                 consume_more_jobs, dequeued, jobVars, connVars, queue,
                 broker_up>>

\* basic_get that leaves the message on the queue.
BasicGetMessageLeaves ==
  /\ pc = "loop"
  /\ LoopCondition
  /\ Usable
  /\ queue > 0
  /\ queue' = queue
  /\ \E m \in Payloads(jobs_queue_name, JobIdNames[dequeued + 1]) :
       IF m.body = "empty"
       THEN /\ empty_polls' = IF empty_polls < MaxPolls
                              THEN empty_polls + 1 ELSE empty_polls
            /\ pc' = "loop"
            /\ UNCHANGED <<dequeued, jobVars>>
       ELSE /\ job' = m
            /\ dequeued' = dequeued + 1
            /\ empty_polls' = 0
            /\ pc' = "handle"
            /\ UNCHANGED <<job_response, error_response, exc, trace>>
  /\ UNCHANGED <<jobs_queue_name, results, jobs_runned,
                 consume_more_jobs, connVars, broker_up>>

\* basic_get(no_ack=True) takes the first message off the queue.  all(job)
\* is false for a message with an empty body, which is dropped like an
\* empty poll; any other message goes to the handler.
BasicGetMessage ==
  /\ pc = "loop"
  /\ LoopCondition
  /\ Usable
  /\ queue > 0
  /\ queue' = queue - 1
  /\ \E m \in Payloads(jobs_queue_name, JobIdNames[dequeued + 1]) :
       IF m.body = "empty"
       THEN /\ empty_polls' = IF empty_polls < MaxPolls
                              THEN empty_polls + 1 ELSE empty_polls
            /\ pc' = "loop"
            /\ UNCHANGED <<dequeued, jobVars>>
       ELSE /\ job' = m
            /\ dequeued' = dequeued + 1
            /\ empty_polls' = 0
            /\ pc' = "handle"
            /\ UNCHANGED <<job_response, error_response, exc, trace>>
  /\ UNCHANGED <<jobs_queue_name, results, jobs_runned,
                 consume_more_jobs, connVars, broker_up>>

\* The handler selected by the type the message declares.
HandlerByType(m) ==
  IF m.type \in {"dot_plot", "heatmaps_plot"}
  THEN process_plot(m) ELSE process_method(m)

\* The handler the queue name selects.
Handler(m) ==
  IF jobs_queue_name = "plot_jobs" THEN process_plot(m) ELSE process_method(m)

\* job_response = process_plot(*job) / process_method(*job)
Handle ==
  /\ pc = "handle"
  /\ \E o \in Handler(job) :
       /\ trace' = o.trace
       /\ IF o.ret
          THEN /\ job_response' = o.response
               /\ pc' = "reconnect_ok"
               /\ UNCHANGED exc
          ELSE /\ exc' = o.exc
               /\ pc' = "except"
               /\ UNCHANGED job_response
  /\ UNCHANGED <<loopVars, connVars, job, error_response, queue, broker_up>>

\* After the handler returned: a new connection only if the current one is
\* closed.
ReconnectOkIfClosed ==
  /\ pc = "reconnect_ok"
  /\ broker_up
  /\ IF connection.st = "closed" THEN NewConnection ELSE UNCHANGED connVars
  /\ pc' = "publish_ok"
  /\ UNCHANGED <<loopVars, jobVars, queue, broker_up>>

\* After the handler returned: a new connection and channel, always.
ReconnectOk ==
  /\ pc = "reconnect_ok"
  /\ broker_up
  /\ NewConnection
  /\ pc' = "publish_ok"
  /\ UNCHANGED <<loopVars, jobVars, queue, broker_up>>

\* create_rabbit_connection raises inside the try: `except Exception`.
ReconnectOkFails ==
  /\ pc = "reconnect_ok"
  /\ ~broker_up
  /\ exc' = Plain("AMQPError", <<"create_rabbit_connection", "job_response">>)
  /\ pc' = "except"
  /\ UNCHANGED <<loopVars, connVars, job, job_response, error_response,
                 trace, queue, broker_up>>

\* The round ends with the current connection, which is connection 0 of
\* the next round.
KeepConnection ==
  /\ connection' = [connection EXCEPT !.id = 0]
  /\ channel' = IF channel = connection.id THEN 0 ELSE -1
  /\ UNCHANGED closed_seen

\* The job is counted and the round ends: jobs_runned += 1; sleep.
JobDone ==
  /\ jobs_runned' = jobs_runned + 1
  /\ pc' = "loop"
  /\ ForgetJob
  /\ KeepConnection

\* basic_publish(body=json.dumps(job_response)), then the end of the round.
PublishOk ==
  /\ pc = "publish_ok"
  /\ Usable
  /\ results' = Append(results, job_response)
  /\ JobDone
  /\ UNCHANGED <<jobs_queue_name, consume_more_jobs, dequeued, empty_polls,
                 queue, broker_up>>

\* basic_publish raises inside the try: `except Exception`.
PublishOkFails ==
  /\ pc = "publish_ok"
  /\ ~Usable
  /\ ConnectionBroken
  /\ exc' = Plain("AMQPError", <<"basic_publish", "job_response">>)
  /\ pc' = "except"
  /\ UNCHANGED <<loopVars, job, job_response, error_response, trace, queue,
                 broker_up>>

\* The message of a classified error: description and hint, where present.
ErrorMessage(e) ==
  (IF e.description # PyNone THEN <<" ", e.description, ".">> ELSE <<>>)
  \o (IF e.hint # PyNone THEN <<" ", e.hint, ".">> ELSE <<>>)

\* error_response of the first except clause.
ClassifiedResponse(m, e) ==
  [job_id |-> m.job_id,
   success |-> FALSE,
   error |-> [id |-> Str(e), message |-> ErrorMessage(e)]]

\* UnknownResponse with a fixed job_id instead of the job's.
UnknownResponseFixedId(m, e) ==
  [job_id |-> JobIdNames[1],
   success |-> FALSE,
   error |-> [id |-> <<"unknown_error">>, message |-> <<>>]]

\* error_response of `except Exception`.
UnknownResponse(m, e) ==
  [job_id |-> m.job_id,
   success |-> FALSE,
   error |-> [id |-> <<"unknown_error">>, message |-> <<>>]]

\* The first except clause up to the logging of the error.  The job_id is
\* read again from the message body.
ExceptClassified ==
  /\ pc = "except"
  /\ exc.cls \in Classified
  /\ IF HasJobId(job)
     THEN /\ error_response' = ClassifiedResponse(job, exc)
          /\ pc' = "ensure_err"
     ELSE /\ pc' = "aborted"
          /\ UNCHANGED error_response
  /\ UNCHANGED <<loopVars, connVars, job, job_response, exc, trace, queue,
                 broker_up>>

\* `except Exception` up to the logging of the error.
ExceptException ==
  /\ pc = "except"
  /\ exc.cls \notin Classified
  /\ HasJobId(job)
  /\ error_response' = UnknownResponse(job, exc)
  /\ pc' = "ensure_err"
  /\ UNCHANGED <<loopVars, connVars, job, job_response, exc, trace, queue,
                 broker_up>>

\* `except Exception` when json.loads(job[2])['job_id'] raises in the
\* clause itself: nothing catches it.
ExceptExceptionFails ==
  /\ pc = "except"
  /\ exc.cls \notin Classified
  /\ ~HasJobId(job)
  /\ pc' = "aborted"
  /\ UNCHANGED <<loopVars, connVars, jobVars, queue, broker_up>>

\* EnsureConnection without the check of is_closed.
EnsureConnectionSkips ==
  /\ pc = "ensure_err"
  /\ pc' = "publish_err"
  /\ UNCHANGED <<loopVars, jobVars, connVars, queue, broker_up>>

\* `if connection.is_closed:` new connection and channel.
EnsureConnection ==
  /\ pc = "ensure_err"
  /\ IF connection.st = "closed"
     THEN broker_up /\ NewConnection
     ELSE UNCHANGED connVars
  /\ pc' = "publish_err"
  /\ UNCHANGED <<loopVars, jobVars, queue, broker_up>>

\* The same when create_rabbit_connection raises: nothing catches it.
EnsureConnectionFails ==
  /\ pc = "ensure_err"
  /\ connection.st = "closed"
  /\ ~broker_up
  /\ pc' = "aborted"
  /\ UNCHANGED <<loopVars, connVars, jobVars, queue, broker_up>>

\* basic_publish(body=json.dumps(error_response)), then the end of the
\* round.
PublishErr ==
  /\ pc = "publish_err"
  /\ Usable
  /\ results' = Append(results, error_response)
  /\ JobDone
  /\ UNCHANGED <<jobs_queue_name, consume_more_jobs, dequeued, empty_polls,
                 queue, broker_up>>

\* basic_publish raises in the except clause: nothing catches it.
PublishErrFails ==
  /\ pc = "publish_err"
  /\ ~Usable
  /\ ConnectionBroken
  /\ pc' = "aborted"
  /\ UNCHANGED <<loopVars, jobVars, queue, broker_up>>

(* --------------------------- the environment --------------------------- *)

Running == pc \notin {"done", "aborted"}

\* A producer puts a message on the job queue.
Produce ==
  /\ Running
  /\ queue < MaxQueue
  /\ queue' = queue + 1
  /\ UNCHANGED <<loopVars, jobVars, connVars, broker_up, pc>>

\* The broker becomes unreachable; the client has not noticed yet.
BrokerDown ==
  /\ Running
  /\ broker_up
  /\ broker_up' = FALSE
  /\ UNCHANGED <<loopVars, jobVars, connVars, queue, pc>>

\* The broker is reachable again.
BrokerUp ==
  /\ Running
  /\ ~broker_up
  /\ broker_up' = TRUE
  /\ UNCHANGED <<loopVars, jobVars, connVars, queue, pc>>

\* The connection is closed (idle timeout, broker closing it) and the
\* client knows: is_closed is true.
ConnectionLost ==
  /\ Running
  /\ connection.st = "open"
  /\ ConnectionBroken
  /\ UNCHANGED <<loopVars, jobVars, queue, broker_up, pc>>

Worker ==
  \/ Startup \/ StartupFails
  \/ LoopExit \/ BasicGetFails \/ BasicGetEmpty \/ BasicGetMessage
  \/ Handle
  \/ ReconnectOk \/ ReconnectOkFails \/ PublishOk \/ PublishOkFails
  \/ ExceptClassified \/ ExceptException \/ ExceptExceptionFails
  \/ EnsureConnection \/ EnsureConnectionFails
  \/ PublishErr \/ PublishErrFails

Environment == Produce \/ BrokerDown \/ BrokerUp \/ ConnectionLost

Next == Worker \/ Environment

Spec == Init /\ [][Next]_vars

(* ------------------------------ properties ----------------------------- *)

\* The positions of the results published for job id.
Published(id) == {k \in 1..Len(results) : results[k].job_id = id}

\* The worker is inside a round that handles a job.
InJob == pc \in {"handle", "reconnect_ok", "publish_ok", "except",
                 "ensure_err", "publish_err"}

\* The exception being handled was raised by the handler, not by the
\* publishing of its response.
HandlerExc ==
  exc.site[1] \notin {"none", "basic_publish", "create_rabbit_connection"}

\* This step publishes response r for the job in progress and ends the
\* round.
Publishes(r) ==
  /\ results' = Append(results, r)
  /\ r.job_id = job.job_id
  /\ jobs_runned' = jobs_runned + 1
  /\ pc' = "loop"

IsFailure(r) == ~r.success /\ "error" \in DOMAIN r

IsClassifiedFailure(r) ==
  IsFailure(r) /\ r.error.id \in {Str(Plain(c, <<"none", "none">>)) : c \in Classified}

IsUnknownError(r) ==
  IsFailure(r) /\ r.error = [id |-> <<"unknown_error">>, message |-> <<>>]

\* Every job handed to a handler before the one in progress has exactly
\* one result, the one in progress has none yet, and between rounds every
\* job has exactly one.
C1_Counts ==
  /\ Len(results) <= dequeued
  /\ \A i \in 1..dequeued :
       /\ Cardinality(Published(JobIdNames[i])) <= 1
       /\ (i < dequeued \/ pc \in {"loop", "done"})
            => Cardinality(Published(JobIdNames[i])) = 1
       /\ (i = dequeued /\ InJob) => Published(JobIdNames[i]) = {}

\* A job with a job_id goes from the handler to a publish site whatever the
\* handler did, and the publish site publishes its response under its
\* job_id when the connection is open, or closed with the broker reachable.
C1_Steps ==
  /\ (pc = "handle" /\ pc' # pc) => pc' \in {"reconnect_ok", "except"}
  /\ (pc = "except" /\ pc' # pc /\ HasJobId(job))
       => pc' = "ensure_err" /\ error_response'.job_id = job.job_id
  /\ (pc = "reconnect_ok" /\ pc' # pc /\ broker_up)
       => pc' = "publish_ok" /\ Usable'
  /\ (pc = "publish_ok" /\ pc' # pc /\ Usable) => Publishes(job_response)
  /\ (pc = "ensure_err" /\ pc' # pc /\ broker_up)
       => pc' = "publish_err" /\ Usable'
  /\ (pc = "publish_err" /\ pc' # pc /\ Usable) => Publishes(error_response)

\* C1: for every dequeued job message that carries a job_id, whatever the
\* handler does (return, classified exception, other exception) and whether
\* the connection is open or closed with the broker reachable when the
\* result is to be published, exactly one result is published for the job
\* before the next dequeue, and it carries the job's job_id.
C1_ExactlyOneResult == [](C1_Counts) /\ [][C1_Steps]_vars

\* Three jobs were handled: the first succeeded, the second failed with a
\* classified error, the third with another error; each has its result.
C1_Witness ==
  /\ pc = "done"
  /\ Len(results) = MaxJobs
  /\ results[1].success /\ results[1].job_id = JobIdNames[1]
  /\ IsClassifiedFailure(results[2]) /\ results[2].job_id = JobIdNames[2]
  /\ IsUnknownError(results[3]) /\ results[3].job_id = JobIdNames[3]

\* The payload lacks a required field: job_id, or a field of a method job.
MissingRequired(m) ==
  /\ m.body = "json"
  /\ \/ m.job_id = PyNone
     \/ jobs_queue_name # "plot_jobs" /\ m.fields # MethodFields

\* C2: a job whose payload lacks a required field ends with a Failure
\* result being published; no exception escapes the try/except of the main
\* loop and the process does not abort.
C2_MissingFieldFails ==
  [][/\ (pc = "handle" /\ MissingRequired(job) /\ pc' # pc) => pc' = "except"
     /\ (pc = "except" /\ MissingRequired(job) /\ HandlerExc /\ pc' # pc)
          => pc' # "aborted"
     /\ (pc = "publish_err" /\ MissingRequired(job) /\ HandlerExc
           /\ pc' # pc /\ Usable)
          => Publishes(error_response) /\ IsFailure(error_response)]_vars

\* C3: at most MaxJobs messages are handed to a handler and at most MaxJobs
\* results are published; once the counter is MaxJobs the loop takes no
\* further message and stops; the counter advances by exactly one with each
\* published result, Success or Failure, and only then.
C3_AtMostMaxJobs ==
  /\ [](jobs_runned <= MaxJobs /\ dequeued <= MaxJobs /\ Len(results) <= MaxJobs)
  /\ [][/\ jobs_runned = MaxJobs => (dequeued' = dequeued /\ queue' >= queue)
        /\ (jobs_runned = MaxJobs /\ pc' # pc) => (pc = "loop" /\ pc' = "done")
        /\ (jobs_runned' # jobs_runned \/ results' # results)
             => /\ jobs_runned' = jobs_runned + 1
                /\ Len(results') = Len(results) + 1
                /\ SubSeq(results', 1, Len(results)) = results]_vars

\* The loop stopped after three jobs, some succeeded and some failed, with
\* messages still waiting in the job queue.
C3_Witness ==
  /\ pc = "done"
  /\ jobs_runned = MaxJobs
  /\ queue = MaxQueue
  /\ \E k \in 1..Len(results) : results[k].success
  /\ \E k \in 1..Len(results) : IsFailure(results[k])

\* C4 as stated: the loop stops after at most MaxJobs empty attempts, so
\* there are never more than MaxJobs of them.
C4_StopsAfterEmptyPolls == empty_polls <= MaxJobs

\* C4 as amended: the script ends normally only when MaxJobs jobs were
\* handled; a round that finds the queue empty changes neither the counter
\* nor the flag, and the loop goes on polling.
C4_StopsOnlyAfterMaxJobs ==
  /\ [](pc = "done" => jobs_runned = MaxJobs)
  /\ [](consume_more_jobs)
  /\ [][empty_polls' > empty_polls =>
          /\ pc' = "loop"
          /\ jobs_runned' = jobs_runned
          /\ LoopCondition']_vars

\* More than MaxJobs empty attempts in a row, and the loop still polls.
C4_Witness ==
  /\ pc = "loop"
  /\ empty_polls > MaxJobs
  /\ LoopCondition

\* C5: an exception raised by a handler is caught in the main loop and
\* turned into a published Failure result; it never aborts the batch, which
\* goes on with the next message.
C5_HandlerErrorIsolated ==
  [][(pc = "except" /\ HandlerExc /\ pc' # pc) =>
       (pc' = "ensure_err" /\ IsFailure(error_response'))]_vars

\* The number of connections created so far in a round is 0 until a
\* publish site is reached, and 1 once the success site has run.
C6_Created ==
  /\ pc \in {"loop", "handle", "reconnect_ok"} => connection.id = 0
  /\ pc = "publish_ok" => connection.id = 1
  /\ pc \in {"except", "ensure_err"} =>
       connection.id = IF exc.site[1] = "basic_publish" THEN 1 ELSE 0
  /\ pc \notin {"start", "aborted"} => channel = connection.id

\* A publish site that finds the connection closed and the broker
\* reachable creates exactly one connection and the result goes out on it.
C6_Steps ==
  /\ (pc = "reconnect_ok" /\ pc' # pc /\ broker_up)
       => /\ connection' = [id |-> connection.id + 1, st |-> "open"]
          /\ channel' = connection'.id
          /\ pc' = "publish_ok"
  /\ (pc = "ensure_err" /\ pc' # pc /\ connection.st = "closed" /\ broker_up)
       => /\ connection' = [id |-> connection.id + 1, st |-> "open"]
          /\ channel' = connection'.id
          /\ pc' = "publish_err"
  /\ (pc = "ensure_err" /\ pc' # pc /\ connection.st = "open")
       => UNCHANGED <<connection, channel>>
  /\ (pc \in {"publish_ok", "publish_err"} /\ pc' # pc /\ Usable)
       => /\ Len(results') = Len(results) + 1
          /\ connection'.st = "open"
          /\ channel = connection.id

\* C6: if the connection is closed when a job's result is to be published
\* and the broker is reachable, exactly one new connection is created for
\* the job and the result is published on it, at the success site and at
\* both error sites.
C6_ReconnectOnce == [](C6_Created) /\ [][C6_Steps]_vars

\* An error site found the connection closed, created one connection and
\* is about to publish on it.
C6_Witness ==
  /\ pc = "publish_err"
  /\ HandlerExc
  /\ connection = [id |-> 1, st |-> "open"]
  /\ channel = 1
  /\ broker_up

\* C7: when the publishing of a result fails with a broker fault, the
\* worker reconnects once and publishes that same result again (a Success
\* stays a Success); it does not give up before that one retry.
C7_RetrySameResult ==
  /\ [](pc \in {"ensure_err", "publish_err"} /\ exc.site[1] = "basic_publish"
          => error_response = job_response)
  /\ [][(pc = "publish_err" /\ HandlerExc) => pc' # "aborted"]_vars

\* A payload of a plot job with a job_id and a type that is neither
\* dot_plot nor heatmaps_plot.
UnknownTypeJob(m) ==
  /\ jobs_queue_name = "plot_jobs"
  /\ HasJobId(m)
  /\ m.type \notin {"dot_plot", "heatmaps_plot"}

\* r is the Failure result for the unknown type of payload m.
NamesUnknownType(r, m) ==
  /\ r.job_id = m.job_id
  /\ IsFailure(r)
  /\ r.error.id = <<"UnknownPlotType">>
  /\ r.error.message[Len(r.error.message)] =
       (IF m.type = PyNone THEN "None" ELSE m.type)

\* C8: on a plot worker a payload with a job_id and an unknown or absent
\* type gives one published result with success false, error id
\* UnknownPlotType and a message naming the type, and no storage read,
\* storage write or plot computation is done for the job.
C8_UnknownPlotType ==
  /\ [](InJob /\ UnknownTypeJob(job) => trace = <<>>)
  /\ [][/\ (pc = "handle" /\ pc' # pc /\ UnknownTypeJob(job))
             => /\ pc' = "reconnect_ok"
                /\ NamesUnknownType(job_response', job)
                /\ trace' = <<>>
        /\ (pc = "publish_ok" /\ pc' # pc /\ Usable /\ UnknownTypeJob(job))
             => /\ Publishes(job_response)
                /\ NamesUnknownType(results'[Len(results')], job)
                /\ Cardinality({k \in 1..Len(results') :
                                  results'[k].job_id = job.job_id}) = 1]_vars

\* A plot worker published the result of a job without type between two
\* rounds.
C8_Witness ==
  /\ jobs_queue_name = "plot_jobs"
  /\ pc = "loop"
  /\ Len(results) = 2
  /\ results[2] = [job_id |-> JobIdNames[2], success |-> FALSE,
                   error |-> [id |-> <<"UnknownPlotType">>,
                              message |-> <<"Given plot type does not exist: ",
                                            "None">>]]

\* C9: on a method worker, when the storage read of file_meta reports
\* not-found, the error kind of the job's result is the read-error kind,
\* not the generic one.
C9_NotFoundIsReadError ==
  (/\ jobs_queue_name # "plot_jobs"
   /\ pc \in {"ensure_err", "publish_err"}
   /\ job.fields = MethodFields
   /\ exc.cls = "ClientError"
   /\ exc.site = <<"get_object", "file_meta">>)
  => /\ error_response.error.id # <<"unknown_error">>
     /\ IsClassifiedFailure(error_response)

\* C10: every exception raised during handling that is not of a classified
\* type gives a published Failure result with id unknown_error and an empty
\* message.
C10_UnclassifiedIsGeneric ==
  [][(pc = "except" /\ exc.cls \notin Classified /\ pc' # pc) =>
       /\ pc' = "ensure_err"
       /\ error_response' = [job_id |-> job.job_id, success |-> FALSE,
                             error |-> [id |-> <<"unknown_error">>,
                                        message |-> <<>>]]]_vars

\* There is a storage write among the events of tr.
HasPut(tr) == \E i \in 1..Len(tr) : tr[i][1] = "put_object"

\* The error ids of the input and validation errors.
ValidationIds ==
  {ExceptionText(c) : c \in Classified \ {"PlotException"}}

\* The plotter returned and an output file it should have made is absent.
OutputMissing ==
  /\ jobs_queue_name = "plot_jobs"
  /\ exc.cls = "PlotException"
  /\ exc.site[1] = "os.path.exists"

\* C11: when a plot computation ran to completion and an expected output
\* file is absent, nothing is written to storage for the job and the
\* result published is a Failure whose error id is neither UnknownPlotType
\* nor unknown_error nor the id of an input or validation error.
C11_MissingOutputKind ==
  /\ [](pc \in {"except", "ensure_err", "publish_err"} /\ OutputMissing
          => /\ ~HasPut(trace)
             /\ \E i \in 1..Len(trace) : trace[i][1] = "compute")
  /\ [][/\ (pc = "except" /\ OutputMissing /\ pc' # pc)
             => /\ pc' = "ensure_err"
                /\ IsFailure(error_response')
                /\ error_response'.error.id
                     \notin {<<"UnknownPlotType">>, <<"unknown_error">>}
                              \cup ValidationIds
        /\ (pc = "publish_err" /\ OutputMissing /\ pc' # pc /\ Usable)
             => /\ Publishes(error_response)
                /\ trace' = <<>>]_vars

\* The Failure for a missing output file of a heatmaps plot is about to be
\* published.
C11_Witness ==
  /\ pc = "publish_err"
  /\ OutputMissing
  /\ job.type = "heatmaps_plot"
  /\ error_response.error.id = ExceptionText("PlotException")
  /\ Usable

\* The storage keys a response references.
Keys(r) == {r.files[f] : f \in DOMAIN r.files}

\* The same keys without their extension: artifact prefix and job id.
KeyNames(r) == {<<k[1], k[2]>> : k \in Keys(r)}

\* The computations (launchers, plotters) that ran for the job.
PathOf(tr) == {tr[i][2] : i \in {k \in 1..Len(tr) : tr[k][1] = "compute"}}

\* The handler of a method job returned a Success that waits to be published.
MethodSuccess ==
  /\ jobs_queue_name # "plot_jobs"
  /\ pc \in {"reconnect_ok", "publish_ok"}
  /\ job_response.success

\* C12 as stated: with iterations = 0 the Success references exactly
\* means_simple_<id>, significant_means_<id> and deconvoluted_simple_<id>;
\* with iterations > 0 it references those same keys and pvalues_simple_<id>.
C12_SameKeysPlusPvalues ==
  MethodSuccess =>
    LET id == job.job_id
        base == {<<"means_simple_", id>>, <<"significant_means_", id>>,
                 <<"deconvoluted_simple_", id>>}
    IN IF job.iterations = 0
       THEN KeyNames(job_response) = base
       ELSE KeyNames(job_response) = base \cup {<<"pvalues_simple_", id>>}

\* C12 (amended): with iterations = 0 the non-statistical launcher ran and
\* the Success references exactly means_simple_<id>.txt,
\* significant_means_<id>.txt and deconvoluted_simple_<id>.txt; with
\* iterations > 0 the statistical launcher ran and the Success references
\* exactly pvalues_simple_<id>.txt, means_simple_<id>.txt,
\* significant_means_simple_<id>.txt and deconvoluted_simple_<id>.txt; that
\* response is the one published.
C12_PathKeys ==
  /\ [](MethodSuccess =>
          LET id == job.job_id
          IN /\ job_response.job_id = id
             /\ IF job.iterations = 0
                THEN /\ PathOf(trace) = {"non_statistical"}
                     /\ Keys(job_response)
                          = {<<"means_simple_", id, ".txt">>,
                             <<"significant_means_", id, ".txt">>,
                             <<"deconvoluted_simple_", id, ".txt">>}
                ELSE /\ PathOf(trace) = {"statistical"}
                     /\ Keys(job_response)
                          = {<<"pvalues_simple_", id, ".txt">>,
                             <<"means_simple_", id, ".txt">>,
                             <<"significant_means_simple_", id, ".txt">>,
                             <<"deconvoluted_simple_", id, ".txt">>})
  /\ [][MethodSuccess /\ pc = "publish_ok" /\ pc' = "loop"
          => results' = Append(results, job_response)]_vars

\* The Success of a statistical job is about to be published.
C12_Witness ==
  /\ MethodSuccess
  /\ pc = "publish_ok"
  /\ job.iterations = 10
  /\ Cardinality(Keys(job_response)) = 4
  /\ Usable

\* C13: a dequeued job is handled at most once.  The dequeue removes the
\* message from the job queue; only a producer ever adds to the job queue;
\* every handler call is for a message just removed and is followed by no
\* second call for it; and when the process aborts between the dequeue and
\* the publish, the job is neither put back on the job queue nor in the
\* result queue.
C13_HandledAtMostOnce ==
  /\ [][/\ queue' > queue => UNCHANGED <<pc, loopVars, jobVars, connVars>>
        /\ (pc' = "handle" /\ pc # "handle")
             => /\ pc = "loop"
                /\ queue' = queue - 1
                /\ dequeued' = dequeued + 1
                /\ job' # NoJob
                /\ Published(JobIdNames[dequeued']) = {}
        /\ (pc = "handle" /\ pc' # pc)
             => /\ pc' \in {"reconnect_ok", "except"}
                /\ UNCHANGED <<job, dequeued, queue, results>>
        /\ (InJob /\ pc' = "aborted")
             => UNCHANGED <<job, dequeued, queue, results>>]_vars
  /\ [](pc = "aborted" /\ job # NoJob
          => /\ Len(results) = dequeued - 1
             /\ HasJobId(job) => Published(job.job_id) = {})

\* The process aborted while the Failure of a job was to be published: the
\* job is on neither queue.
C13_Witness ==
  /\ pc = "aborted"
  /\ HasJobId(job)
  /\ HandlerExc
  /\ dequeued = 2
  /\ queue = 0
  /\ Len(results) = 1
  /\ Published(job.job_id) = {}

\* This step calls create_rabbit_connection with success.
Creates == connection'.id = connection.id + 1 /\ connection'.st = "open"

\* C14 as stated: a connection is created only when the current one is
\* observed closed, so while no connection of the run was closed the worker
\* is on the connection created at startup.
C14_OnlyWhenClosed ==
  (connection.st # "none" /\ ~closed_seen) => connection.id = 0

\* C14 (amended): the connection is kept from one round to the next, and a
\* connection is created at startup, after every return of a handler before
\* its response is published, whether or not the current connection is
\* open, and in an except clause when the current connection is closed; so
\* while no connection of the run was closed, each job whose handler
\* returned is published on a connection created for it and every other
\* dequeue and publish uses the connection the round began with.
C14_CreatedPerReturn ==
  /\ [](~closed_seen /\ connection.st # "none"
          => /\ connection.st = "open"
             /\ channel = connection.id
             /\ connection.id = IF pc = "publish_ok" THEN 1 ELSE 0)
  /\ [][/\ Creates
             => \/ pc = "start"
                \/ pc = "reconnect_ok"
                \/ pc = "ensure_err" /\ connection.st = "closed"
        /\ (pc = "reconnect_ok" /\ pc' = "publish_ok") => Creates
        /\ (pc' = "loop" /\ pc \notin {"start", "loop"})
             => /\ connection'.st = connection.st
                /\ (channel' = connection'.id) = (channel = connection.id)]_vars

\* No connection of the run was closed and the second job's Success is about
\* to be published on a connection created after its handler returned.
C14_Witness ==
  /\ ~closed_seen
  /\ pc = "publish_ok"
  /\ dequeued = 2
  /\ jobs_runned = 1
  /\ connection = [id |-> 1, st |-> "open"]
  /\ channel = 1

\* The worker is at a call of create_rabbit_connection.
AtCreate ==
  \/ pc \in {"start", "reconnect_ok"}
  \/ pc = "ensure_err" /\ connection.st = "closed"

\* C15: a failure to construct a broker connection, at startup or at a
\* reconnect before a publish, is never caught: the step of the worker that
\* makes the call with the broker unreachable aborts the process, and no
\* except clause ever handles such a failure.
C15_ConnectFailureAborts ==
  /\ [][(AtCreate /\ ~broker_up /\ pc' # pc) => pc' = "aborted"]_vars
  /\ [](exc.site[1] = "create_rabbit_connection" => pc = "aborted")

\* The positions of the events of one kind in a trace.
Positions(tr, kind) == {i \in 1..Len(tr) : tr[i][1] = kind}

\* A Success returned by the handler waits to be published.
SuccessPending ==
  /\ pc \in {"reconnect_ok", "publish_ok"}
  /\ job_response.success

\* C16: a Success is published only after the job's inputs were read, then
\* its computation returned, then every storage key its files name was
\* written; a Failure is published only from an except clause; storage is
\* read and written and computations run only by the handler call, which
\* precedes the job's publish, and the publish ends the job: no result of
\* the job exists while it is handled, and the step that publishes leaves
\* no job in progress.
C16_StateMachineOrder ==
  /\ [](SuccessPending =>
          LET g == Positions(trace, "get_object")
              c == Positions(trace, "compute")
              p == Positions(trace, "put_object")
          IN /\ g # {} /\ Cardinality(c) = 1
             /\ \A i \in g, j \in c : i < j
             /\ \A j \in c, k \in p : j < k
             /\ {trace[k][2] : k \in p} = Keys(job_response)
             /\ Cardinality(p) = Cardinality(Keys(job_response)))
  /\ [](InJob /\ HasJobId(job) => Published(job.job_id) = {})
  /\ [][/\ trace' # trace
             => \/ pc = "handle" /\ trace = <<>>
                \/ pc \in {"publish_ok", "publish_err"} /\ trace' = <<>>
        /\ results' # results
             => /\ \/ pc = "publish_ok" /\ results' = Append(results, job_response)
                   \/ pc = "publish_err"
                      /\ results' = Append(results, error_response)
                /\ pc' = "loop"
                /\ job' = NoJob
                /\ trace' = <<>>
                /\ (results'[Len(results')].success /\ pc = "publish_ok")
                     => SuccessPending
        /\ (pc' = "publish_err" /\ pc # pc') => pc = "ensure_err"
        /\ (pc' = "ensure_err" /\ pc # pc') => pc = "except"]_vars

\* The Success of a heatmaps plot, both of whose images were written, is
\* about to be published.
C16_Witness ==
  /\ SuccessPending
  /\ pc = "publish_ok"
  /\ job.type = "heatmaps_plot"
  /\ Cardinality(Positions(trace, "put_object")) = 2
  /\ Cardinality(Positions(trace, "get_object")) = 2
  /\ Usable

\* What only the plot handler does: temporary files, a plotter, the
\* response for an unknown plot type.
PlotHandlerRan ==
  /\ PathOf(trace') \subseteq {"dot_plot", "heatmaps_plot"}
  /\ (HasJobId(job) /\ job.type \in {"dot_plot", "heatmaps_plot"})
       => Positions(trace', "tempfile") # {}
  /\ pc' = "except" => exc'.site[1] \notin {"metadata", "launcher", "coerce",
                                            "read_data"}
                       \/ exc'.site = <<"metadata", "job_id">>
  /\ (HasJobId(job) /\ job.type \notin {"dot_plot", "heatmaps_plot"})
       => /\ pc' = "reconnect_ok"
          /\ job_response' = UnknownPlotType(job.job_id, job.type)

\* What only the method handler does: the inputs of a method job, a
\* launcher chosen by iterations, no temporary file, never the response for
\* an unknown plot type.
MethodHandlerRan ==
  /\ PathOf(trace') \subseteq {"statistical", "non_statistical"}
  /\ Positions(trace', "tempfile") = {}
  /\ \A i \in Positions(trace', "get_object") :
       trace'[i][2] \in {"file_meta", "file_counts"}
  /\ pc' = "except" => exc'.site[1] \notin {"plotter", "os.path.exists"}
  /\ pc' = "reconnect_ok"
       => /\ job_response'.success
          /\ PathOf(trace') = {IF job.iterations = 0
                               THEN "non_statistical" ELSE "statistical"}

\* C17: the handler called for a job is the one the configured job queue
\* name selects, the plot handler for 'plot_jobs' and the method handler
\* for another name; the name never changes during the run and the content
\* of the message, a plot type in a method worker's message or method
\* fields in a plot worker's message, does not change the selection.
C17_HandlerByQueueName ==
  [][/\ jobs_queue_name' = jobs_queue_name
     /\ (pc = "handle" /\ pc' # pc)
          => IF jobs_queue_name = "plot_jobs"
             THEN PlotHandlerRan
             ELSE MethodHandlerRan]_vars

\* A message that declares a plot type was handled by the method handler of
\* a method worker.
C17_Witness ==
  /\ jobs_queue_name = "method_jobs"
  /\ job.type = "dot_plot"
  /\ pc = "reconnect_ok"
  /\ PathOf(trace) = {"non_statistical"}
  /\ job_response.success

\* The temporary files and directories of a trace that exist at its end:
\* made and not removed afterwards.
TempLeft(tr) ==
  {tr[i][2] : i \in {k \in Positions(tr, "tempfile") :
                       \A j \in (k + 1)..Len(tr) : tr[j] # <<"cleanup", tr[k][2]>>}}

\* C18: every temporary file and directory a handler makes is removed on
\* every exit of the handler, by return or by an exception of a storage
\* read, of the computation, of the check for the output files or of a
\* storage write; none exists when the handler has exited, so none when a
\* result is published or the next job is dequeued.
C18_TempFilesRemoved ==
  /\ [](TempLeft(trace) = {})
  /\ [][(pc = "handle" /\ pc' # pc)
          => /\ TempLeft(trace') = {}
             /\ Cardinality(Positions(trace', "cleanup"))
                  = Cardinality(Positions(trace', "tempfile"))
             /\ \A i \in Positions(trace', "cleanup"),
                   j \in 1..Len(trace') :
                  trace'[j][1] # "cleanup" => j < i]_vars

\* The second image of a heatmaps plot could not be written: the handler
\* raised after it made its temporary directory and two files, and they are
\* removed.
C18_Witness ==
  /\ pc = "except"
  /\ job.type = "heatmaps_plot"
  /\ exc.site[1] = "put_object"
  /\ Cardinality(Positions(trace, "put_object")) = 1
  /\ Cardinality(Positions(trace, "tempfile")) = 3
  /\ TempLeft(trace) = {}

\* C19: whenever the loop condition is evaluated, jobs_runned is the number
\* of dequeued messages whose handling ended with a published result, and
\* it is at most MaxJobs; an attempt that finds the job queue empty leaves
\* jobs_runned, the connection, the channel and the result queue as they
\* were.
C19_CounterIsPublishedJobs ==
  /\ [](pc \in {"loop", "done"}
          => /\ jobs_runned = dequeued
             /\ jobs_runned = Len(results)
             /\ jobs_runned
                  = Cardinality({i \in 1..dequeued :
                                   Published(JobIdNames[i]) # {}})
             /\ jobs_runned <= MaxJobs)
  /\ [][(pc = "loop" /\ empty_polls' > empty_polls)
          => /\ pc' = "loop"
             /\ UNCHANGED <<jobs_runned, connection, channel, results,
                            dequeued>>]_vars

\* Two jobs were handled, one failed, then two attempts found the queue
\* empty: the counter is still two at the next evaluation.
C19_Witness ==
  /\ pc = "loop"
  /\ queue = 0
  /\ empty_polls = 2
  /\ jobs_runned = 2
  /\ Len(results) = 2
  /\ ~results[1].success
  /\ results[2].success

\* This step publishes a Failure for the job in progress.
PublishesFailure ==
  /\ pc \in {"publish_ok", "publish_err"}
  /\ Len(results') = Len(results) + 1
  /\ IsFailure(results'[Len(results')])

\* C20 as stated: whenever the result published for a job is a Failure,
\* none of the job's outputs was written to storage.
C20_FailureMeansNothingWritten ==
  [][PublishesFailure => ~HasPut(trace)]_vars

\* C20 (amended): a Failure is published for a job with outputs in storage
\* only when a storage write failed after earlier writes of the job
\* succeeded, or when the connection or the publish failed at the success
\* site after all its writes; that Failure is an unknown_error.  A Failure
\* for any other fault, of a storage read, a computation, a missing output
\* file or the payload, is published with no output of the job written.
C20_WrittenThenFailedOnlyByWriteOrBroker ==
  /\ [](pc \in {"except", "ensure_err", "publish_err"} /\ HasPut(trace)
          => /\ exc.site[1] \in {"put_object", "basic_publish",
                                 "create_rabbit_connection"}
             /\ exc.cls \notin Classified
             /\ exc.site[1] # "put_object"
                  => /\ job_response.success
                     /\ {trace[k][2] : k \in Positions(trace, "put_object")}
                          = Keys(job_response))
  /\ [][PublishesFailure
          => IF HasPut(trace)
             THEN /\ pc = "publish_err"
                  /\ IsUnknownError(results'[Len(results')])
             ELSE \/ pc = "publish_err"
                  \/ pc = "publish_ok"
                     /\ results'[Len(results')]
                          = UnknownPlotType(job.job_id, job.type)]_vars

\* The third of the four outputs of a statistical job could not be written:
\* two outputs are in storage and an unknown_error is about to be published.
C20_Witness ==
  /\ pc = "publish_err"
  /\ Usable
  /\ exc.site[1] = "put_object"
  /\ Cardinality(Positions(trace, "put_object")) = 2
  /\ PathOf(trace) = {"statistical"}
  /\ IsUnknownError(error_response)

====
